---- MODULE Spec2Model ----
(***************************************************************************)
(* A model of the fasthttp router (src/unnamed/part_002, lines 1-470) and  *)
(* of the Prometheus middleware that wraps it (src/prometheus.go).         *)
(*                                                                         *)
(* Strings that the code indexes (paths, patterns, prefixes) are sequences *)
(* of one-character strings, so path[0], path[len-1] and concatenation are *)
(* what they are in Go.  Strings that the code only builds and compares    *)
(* (the Allow header, the metric label) are TLA+ strings built with \o.    *)
(***************************************************************************)
EXTENDS Naturals, Sequences, FiniteSets, TLC

VARIABLES
    alive,            \* the Router objects constructed so far
    parent,           \* Router.parent      (Nil for a router made by New)
    beginPath,        \* Router.beginPath
    trees,            \* Router.trees            : method -> trie
    registeredPaths,  \* Router.registeredPaths  : method -> list of paths
    cfg,              \* the public option fields of each Router
    crashed,          \* a registration panicked (the process is gone)
    ctx,              \* the RequestCtx of the request this run serves
    prom,             \* the Prometheus object p
    pc,               \* position of func main in its setup sequence
    serving,          \* routers whose Handler a serving loop dispatches through
    nreg              \* registrations the application has made

vars == <<alive, parent, beginPath, trees, registeredPaths, cfg, crashed,
          ctx, prom, pc, serving, nreg>>

routing == <<trees, registeredPaths>>

----------------------------------------------------------------------------
(* Bounds of the model *)

\* registrations made by the application in one run
MaxRoutes == 2

----------------------------------------------------------------------------
(* Values *)

Nil == "nil"
NoPanic == "no panic"
PanicValues == {"boom"}

Routers == {"r", "m", "g1", "g2"}
Methods == {"GET", "HEAD", "POST", "OPTIONS", "CONNECT"}

\* Paths, as character sequences
Slash   == <<"/">>
PX      == <<"/", "x">>
PXs     == <<"/", "x", "/">>
PXup    == <<"/", "X">>
PXups   == <<"/", "X", "/">>
PNoLead == <<"x">>
PStar   == <<"*">>
PSlStar == <<"/", "*">>
PDblX   == <<"/", "/", "x">>
PParam  == <<"/", ":", "i">>
POpt    == <<"/", "x", "/", ":", "i", "?">>
PA      == <<"/", "a">>
PMetrics == <<"/", "m">>
PHealth  == <<"/", "h">>
\* a byte that occurs in no UTF-8 text, and a path holding it (/%ff)
BadByte  == "\\377"
PBad     == <<"/", BadByte>>

RECURSIVE Str(_)
\* the Go string of a character sequence
Str(p) == IF p = <<>> THEN "" ELSE Head(p) \o Str(Tail(p))

Last(s) == s[Len(s)]
Front(s) == SubSeq(s, 1, Len(s) - 1)

RECURSIVE SeqToSet(_)
SeqToSet(s) == IF s = <<>> THEN {} ELSE {Head(s)} \cup SeqToSet(Tail(s))

\* all orders in which a Go map with the key set S may be ranged over
Perms(S) == {s \in [1..Cardinality(S) -> S] : \A i, j \in 1..Cardinality(S) : i # j => s[i] # s[j]}

----------------------------------------------------------------------------
(* Path utilities and the route trie.  A trie is kept as the set of the    *)
(* routes inserted into it, [path, handle]; matching is by segments.       *)

IsWild(c) == c \in {":", "*"}

Lower(c) == IF c = "X" THEN "x" ELSE c

RECURSIVE SegLen(_)
\* the number of characters before the first '/'
SegLen(s) == IF s = <<>> \/ Head(s) = "/" THEN 0 ELSE 1 + SegLen(Tail(s))

Drop(s, n) == SubSeq(s, n + 1, Len(s))

RECURSIVE Match(_, _)
\* pattern p matches path s exactly: a static character matches itself, a
\* named parameter one non-empty segment, a catch-all the rest of the path
Match(p, s) ==
    IF p = <<>> THEN s = <<>>
    ELSE IF Head(p) = "*" THEN TRUE
    ELSE IF Head(p) = ":"
         THEN SegLen(s) > 0 /\ Match(Drop(p, SegLen(p)), Drop(s, SegLen(s)))
    ELSE s # <<>> /\ Head(p) = Head(s) /\ Match(Tail(p), Tail(s))

RECURSIVE MatchFold(_, _)
\* as Match, with static characters compared without regard to case
MatchFold(p, s) ==
    IF p = <<>> THEN s = <<>>
    ELSE IF Head(p) = "*" THEN TRUE
    ELSE IF Head(p) = ":"
         THEN SegLen(s) > 0 /\ MatchFold(Drop(p, SegLen(p)), Drop(s, SegLen(s)))
    ELSE s # <<>> /\ Lower(Head(p)) = Lower(Head(s)) /\ MatchFold(Tail(p), Tail(s))

RECURSIVE Recase(_, _)
\* the path s with its static characters in the case of pattern p, the text
\* captured by a parameter or a catch-all kept as requested
Recase(p, s) ==
    IF p = <<>> \/ s = <<>> THEN <<>>
    ELSE IF Head(p) = "*" THEN s
    ELSE IF Head(p) = ":"
         THEN SubSeq(s, 1, SegLen(s)) \o Recase(Drop(p, SegLen(p)), Drop(s, SegLen(s)))
    ELSE <<Head(p)>> \o Recase(Tail(p), Tail(s))

\* the path with its trailing '/' toggled; none for "/" and ""
ToggleSlash(path) ==
    IF path = <<>> \/ path = Slash THEN {}
    ELSE IF Last(path) = "/" THEN {Front(path)} ELSE {path \o Slash}

EmptyTree == [present |-> FALSE, routes |-> {}]

Matching(tree, path) == {rt \in tree.routes : Match(rt.path, path)}

\* node.getValue: the handle of the route matching path, else whether the
\* path with its trailing slash toggled matches a route
getValue(tree, path) ==
    IF Matching(tree, path) # {}
    THEN [handle |-> (CHOOSE rt \in Matching(tree, path) : TRUE).handle, tsr |-> FALSE]
    ELSE [handle |-> Nil,
          tsr |-> \E q \in ToggleSlash(path) : Matching(tree, q) # {}]

FoldMatching(tree, path) == {rt \in tree.routes : MatchFold(rt.path, path)}

\* node.findCaseInsensitivePath
findCaseInsensitivePath(tree, path, fixTrailingSlash) ==
    IF FoldMatching(tree, path) # {}
    THEN [fixedPath |-> Recase((CHOOSE rt \in FoldMatching(tree, path) : TRUE).path, path),
          found |-> TRUE]
    ELSE IF fixTrailingSlash /\ \E q \in ToggleSlash(path) : FoldMatching(tree, q) # {}
    THEN LET q == CHOOSE q \in ToggleSlash(path) : FoldMatching(tree, q) # {}
         IN [fixedPath |-> Recase((CHOOSE rt \in FoldMatching(tree, q) : TRUE).path, q),
             found |-> TRUE]
    ELSE [fixedPath |-> <<>>, found |-> FALSE]

RECURSIVE Split(_)
\* the segments between the '/' of a path
Split(s) ==
    IF s = <<>> THEN << <<>> >>
    ELSE IF SegLen(s) = Len(s) THEN <<s>>
    ELSE <<SubSeq(s, 1, SegLen(s))>> \o Split(Drop(s, SegLen(s) + 1))

RECURSIVE Join(_)
Join(segs) == IF segs = <<>> THEN <<>> ELSE Slash \o Head(segs) \o Join(Tail(segs))

RECURSIVE Resolve(_, _)
\* lexical resolution of "", "." and ".." segments
Resolve(segs, acc) ==
    IF segs = <<>> THEN acc
    ELSE IF Head(segs) \in {<<>>, <<".">>} THEN Resolve(Tail(segs), acc)
    ELSE IF Head(segs) = <<".", ".">>
         THEN Resolve(Tail(segs), IF acc = <<>> THEN acc ELSE Front(acc))
    ELSE Resolve(Tail(segs), Append(acc, Head(segs)))

\* cleanPath: one leading '/', no "//", "." or "..", the trailing '/' kept
cleanPath(path) ==
    LET kept == Resolve(Split(path), <<>>)
    IN IF kept = <<>> THEN Slash
       ELSE IF path # <<>> /\ Last(path) = "/" THEN Join(kept) \o Slash
       ELSE Join(kept)

RECURSIVE Unmark(_)
\* a pattern without its '?' marks
Unmark(s) == IF s = <<>> THEN <<>>
             ELSE IF Head(s) = "?" THEN Unmark(Tail(s))
             ELSE <<Head(s)>> \o Unmark(Tail(s))

RECURSIVE OptionalTail(_)
\* the number of trailing segments marked optional
OptionalTail(segs) ==
    IF segs = <<>> \/ Last(segs) = <<>> \/ Last(Last(segs)) # "?" THEN 0
    ELSE 1 + OptionalTail(Front(segs))

\* getOptionalPaths: the concrete patterns of a pattern with optional
\* trailing segments, most specific first; empty when it has none
getOptionalPaths(path) ==
    LET segs == Tail(Split(path))
        k == OptionalTail(segs)
        keep(j) == SubSeq(segs, 1, Len(segs) - j)
    IN IF path = <<>> \/ k = 0 THEN <<>>
       ELSE [j \in 1..(k + 1) |->
                IF keep(j - 1) = <<>> THEN Slash ELSE Unmark(Join(keep(j - 1)))]

RECURSIVE CommonLen(_, _)
CommonLen(p, q) ==
    IF p = <<>> \/ q = <<>> \/ Head(p) # Head(q) THEN 0
    ELSE 1 + CommonLen(Tail(p), Tail(q))

\* two patterns that put a parameter or catch-all where the other puts
\* something else
Conflict(p, q) ==
    LET k == CommonLen(p, q)
    IN k < Len(p) /\ k < Len(q) /\ (IsWild(p[k + 1]) \/ IsWild(q[k + 1]))

\* a catch-all that is not the final segment
BadCatchAll(p) ==
    \E i \in 1..Len(p) : p[i] = "*" /\ \E j \in (i + 1)..Len(p) : p[j] = "/"

\* node.addRoute panics instead of inserting
addRoutePanics(tree, path) ==
    \/ path = <<>> \/ Head(path) # "/"
    \/ BadCatchAll(path)
    \/ \E rt \in tree.routes : rt.path = path \/ Conflict(rt.path, path)

\* node.addRoute, when it does not panic
addRoute(tree, path, handle) ==
    [tree EXCEPT !.routes = @ \cup {[path |-> path, handle |-> handle]}]

----------------------------------------------------------------------------
(* Router *)

\* the option fields New() sets, and the handlers it leaves nil
NewCfg == [RedirectTrailingSlash  |-> TRUE,
           RedirectFixedPath      |-> TRUE,
           HandleMethodNotAllowed |-> TRUE,
           HandleOPTIONS          |-> TRUE,
           NotFound               |-> FALSE,
           MethodNotAllowed       |-> FALSE,
           PanicHandler           |-> FALSE]

\* every assignment of the public fields (a handler field: set or nil)
Cfgs == [RedirectTrailingSlash : BOOLEAN, RedirectFixedPath : BOOLEAN,
         HandleMethodNotAllowed : BOOLEAN, HandleOPTIONS : BOOLEAN,
         NotFound : BOOLEAN, MethodNotAllowed : BOOLEAN, PanicHandler : BOOLEAN]

NoTrees == [m \in Methods |-> EmptyTree]
NoPaths == [m \in Methods |-> <<>>]

\* the routing state of all routers, as Handle reads and writes it
Routing == [trees |-> trees, registeredPaths |-> registeredPaths, panicked |-> FALSE]

RECURSIVE AddRoutes(_, _, _, _, _)
\* the loop of Handle over the concrete patterns; a panic of addRoute ends it
AddRoutes(rs, r, method, paths, handle) ==
    IF paths = <<>> THEN rs
    ELSE IF addRoutePanics(rs.trees[r][method], Head(paths))
         THEN [rs EXCEPT !.panicked = TRUE]
    ELSE AddRoutes([rs EXCEPT !.trees[r][method] = addRoute(@, Head(paths), handle)],
                   r, method, Tail(paths), handle)

RECURSIVE HandleOn_PrefixOnce(_, _, _, _, _)
\* Handle that forwards the path as given, so only the root's own prefix
\* and none of the groups' reaches the trie
HandleOn_PrefixOnce(rs, r, method, path, handle) ==
    IF path = <<>> \/ path[1] # "/"
    THEN [rs EXCEPT !.panicked = TRUE]
    ELSE LET full == IF beginPath[r] # Slash THEN beginPath[r] \o path ELSE path
             rs1 == [rs EXCEPT !.registeredPaths[r][method] = Append(@, full)]
         IN IF parent[r] # Nil
            THEN HandleOn_PrefixOnce(rs1, parent[r], method, path, handle)
            ELSE LET rs2 == [rs1 EXCEPT !.trees[r][method].present = TRUE]
                     optionalPaths == getOptionalPaths(full)
                 IN IF Len(optionalPaths) = 0
                    THEN AddRoutes(rs2, r, method, <<full>>, handle)
                    ELSE AddRoutes(rs2, r, method, optionalPaths, handle)

RECURSIVE HandleOn_RecordFirst(_, _, _, _, _)
\* Handle that puts the path at the front of the list of registered paths
HandleOn_RecordFirst(rs, r, method, path, handle) ==
    IF path = <<>> \/ path[1] # "/"
    THEN [rs EXCEPT !.panicked = TRUE]
    ELSE LET full == IF beginPath[r] # Slash THEN beginPath[r] \o path ELSE path
             rs1 == [rs EXCEPT !.registeredPaths[r][method] = <<full>> \o @]
         IN IF parent[r] # Nil
            THEN HandleOn_RecordFirst(rs1, parent[r], method, full, handle)
            ELSE LET rs2 == [rs1 EXCEPT !.trees[r][method].present = TRUE]
                     optionalPaths == getOptionalPaths(full)
                 IN IF Len(optionalPaths) = 0
                    THEN AddRoutes(rs2, r, method, <<full>>, handle)
                    ELSE AddRoutes(rs2, r, method, optionalPaths, handle)

RECURSIVE HandleOn_RecordThenCheck(_, _, _, _, _)
\* Handle that records the path before it checks its first character
HandleOn_RecordThenCheck(rs, r, method, path, handle) ==
    LET full == IF beginPath[r] # Slash THEN beginPath[r] \o path ELSE path
        rs1 == [rs EXCEPT !.registeredPaths[r][method] = Append(@, full)]
    IN IF path = <<>> \/ path[1] # "/"
       THEN [rs1 EXCEPT !.panicked = TRUE]
       ELSE IF parent[r] # Nil
            THEN HandleOn_RecordThenCheck(rs1, parent[r], method, full, handle)
            ELSE LET rs2 == [rs1 EXCEPT !.trees[r][method].present = TRUE]
                     optionalPaths == getOptionalPaths(full)
                 IN IF Len(optionalPaths) = 0
                    THEN AddRoutes(rs2, r, method, <<full>>, handle)
                    ELSE AddRoutes(rs2, r, method, optionalPaths, handle)

RECURSIVE HandleOn(_, _, _, _, _)
\* Router.Handle on router r; handle names the handler being registered
HandleOn(rs, r, method, path, handle) ==
    IF path = <<>> \/ path[1] # "/"
    THEN [rs EXCEPT !.panicked = TRUE]
    ELSE LET full == IF beginPath[r] # Slash THEN beginPath[r] \o path ELSE path
             rs1 == [rs EXCEPT !.registeredPaths[r][method] = Append(@, full)]
         IN IF parent[r] # Nil
            THEN HandleOn(rs1, parent[r], method, full, handle)
            ELSE LET rs2 == [rs1 EXCEPT !.trees[r][method].present = TRUE]
                     optionalPaths == getOptionalPaths(full)
                 IN IF Len(optionalPaths) = 0
                    THEN AddRoutes(rs2, r, method, <<full>>, handle)
                    ELSE AddRoutes(rs2, r, method, optionalPaths, handle)

RECURSIVE AllowJoin(_)
\* allow += ", " + method
AllowJoin(ms) ==
    IF ms = <<>> THEN ""
    ELSE IF Len(ms) = 1 THEN ms[1]
    ELSE AllowJoin(Front(ms)) \o ", " \o Last(ms)

\* the patterns in the trie of method m
RoutePaths(r, m) == {rt.path : rt \in trees[r][m].routes}

\* the keys of r.trees
TreeMethods(r) == {m \in Methods : trees[r][m].present}

RECURSIVE SelectSeq2(_, _, _, _)
\* the methods of order, in order, that the loop of allowed keeps
SelectSeq2(r, order, path, reqMethod) ==
    IF order = <<>> THEN <<>>
    ELSE LET m == Head(order)
             rest == SelectSeq2(r, Tail(order), path, reqMethod)
         IN IF path = PStar \/ path = PSlStar
            THEN IF m = "OPTIONS" THEN rest ELSE <<m>> \o rest
            ELSE IF m = reqMethod \/ m = "OPTIONS" THEN rest
            ELSE IF getValue(trees[r][m], path).handle # Nil THEN <<m>> \o rest
            ELSE rest

\* allowed without the final append of OPTIONS
allowed_NoOptions(r, path, reqMethod, order) ==
    AllowJoin(SelectSeq2(r, order, path, reqMethod))

\* Router.allowed, ranging over r.trees in the given order
allowed(r, path, reqMethod, order) ==
    LET found == SelectSeq2(r, order, path, reqMethod)
    IN IF Len(found) > 0 THEN AllowJoin(found) \o ", OPTIONS" ELSE ""

\* the response of a fresh RequestCtx: at is the return reached in Handler,
\* called the handlers invoked (each with the Allow header it could see),
\* raised what the invoked handler raised, panic the panic in flight
NewResp == [at |-> "start", status |-> 200, location |-> <<>>, allow |-> "",
            body |-> "", called |-> <<>>, raised |-> NoPanic, panic |-> NoPanic]

\* a call of the handler fn, which raises req.raise (NoPanic: it returns)
Call(resp, fn, req) ==
    [resp EXCEPT !.called = Append(@, [fn |-> fn, arg |-> "", allow |-> resp.allow]),
                 !.raised = req.raise, !.panic = req.raise]

\* RedirectCode with HEAD treated like GET
RedirectCode_HeadPermanent(method) == IF method \notin {"GET", "HEAD"} THEN 307 ELSE 301

\* the redirect status chosen at lines 329-334
RedirectCode(method) == IF method # "GET" THEN 307 ELSE 301

\* the target of a redirect, with the query string when there is one
WithQuery(path, query) == IF Len(query) > 0 THEN path \o <<"?">> \o query ELSE path

\* TsrTarget that never removes a trailing slash
TsrTarget_AlwaysAppend(path) == path \o Slash

\* the trailing-slash redirect target of lines 339-344
TsrTarget(path) ==
    IF Len(path) > 1 /\ Last(path) = "/" THEN Front(path) ELSE path \o Slash

\* Fallback that sets the Allow header of a 405 only after the handler ran
Fallback_AllowAfter(r, req, order) ==
    LET allow == allowed(r, req.path, req.method, order)
        notFound == IF cfg[r].NotFound
                    THEN Call([NewResp EXCEPT !.at = "NotFound"], "NotFound", req)
                    ELSE [NewResp EXCEPT !.at = "NotFound", !.status = 404,
                                         !.body = "Not Found"]
    IN IF req.method = "OPTIONS"
       THEN IF cfg[r].HandleOPTIONS /\ Len(allow) > 0
            THEN [NewResp EXCEPT !.at = "Options", !.allow = allow]
            ELSE notFound
       ELSE IF cfg[r].HandleMethodNotAllowed /\ Len(allow) > 0
            THEN IF cfg[r].MethodNotAllowed
                 THEN [Call([NewResp EXCEPT !.at = "MethodNotAllowed"],
                            "MethodNotAllowed", req) EXCEPT !.allow = allow]
                 ELSE [NewResp EXCEPT !.at = "MethodNotAllowed", !.allow = allow,
                                      !.status = 405, !.body = "Method Not Allowed"]
            ELSE notFound

\* lines 378-408: the OPTIONS reply, the 405 and the 404
Fallback(r, req, order) ==
    LET allow == allowed(r, req.path, req.method, order)
        notFound == IF cfg[r].NotFound
                    THEN Call([NewResp EXCEPT !.at = "NotFound"], "NotFound", req)
                    ELSE [NewResp EXCEPT !.at = "NotFound", !.status = 404,
                                         !.body = "Not Found"]
    IN IF req.method = "OPTIONS"
       THEN IF cfg[r].HandleOPTIONS /\ Len(allow) > 0
            THEN [NewResp EXCEPT !.at = "Options", !.allow = allow]
            ELSE notFound
       ELSE IF cfg[r].HandleMethodNotAllowed /\ Len(allow) > 0
            THEN IF cfg[r].MethodNotAllowed
                 THEN Call([NewResp EXCEPT !.at = "MethodNotAllowed", !.allow = allow],
                           "MethodNotAllowed", req)
                 ELSE [NewResp EXCEPT !.at = "MethodNotAllowed", !.allow = allow,
                                      !.status = 405, !.body = "Method Not Allowed"]
            ELSE notFound

\* Dispatch that redirects on tsr without reading RedirectTrailingSlash
Dispatch_TsrUnconditional(r, req, order) ==
    LET root == trees[r][req.method]
        v == getValue(root, req.path)
        code == RedirectCode(req.method)
        fix == findCaseInsensitivePath(root, cleanPath(req.path),
                                       cfg[r].RedirectTrailingSlash)
    IN IF ~root.present THEN Fallback(r, req, order)
       ELSE IF v.handle # Nil
            THEN Call([NewResp EXCEPT !.at = "Handled"], v.handle, req)
       ELSE IF req.method # "CONNECT" /\ req.path # Slash
            THEN IF v.tsr
                 THEN [NewResp EXCEPT !.at = "RedirectTSR", !.status = code,
                          !.location = WithQuery(TsrTarget(req.path), req.query)]
                 ELSE IF cfg[r].RedirectFixedPath /\ fix.found
                 THEN [NewResp EXCEPT !.at = "RedirectFixed", !.status = code,
                          !.location = WithQuery(fix.fixedPath, req.query)]
                 ELSE Fallback(r, req, order)
       ELSE Fallback(r, req, order)

\* Dispatch that hands the path as requested, not cleaned, to the
\* case-insensitive search
Dispatch_FixRaw(r, req, order) ==
    LET root == trees[r][req.method]
        v == getValue(root, req.path)
        code == RedirectCode(req.method)
        fix == findCaseInsensitivePath(root, req.path, cfg[r].RedirectTrailingSlash)
    IN IF ~root.present THEN Fallback(r, req, order)
       ELSE IF v.handle # Nil
            THEN Call([NewResp EXCEPT !.at = "Handled"], v.handle, req)
       ELSE IF req.method # "CONNECT" /\ req.path # Slash
            THEN IF v.tsr /\ cfg[r].RedirectTrailingSlash
                 THEN [NewResp EXCEPT !.at = "RedirectTSR", !.status = code,
                          !.location = WithQuery(TsrTarget(req.path), req.query)]
                 ELSE IF cfg[r].RedirectFixedPath /\ fix.found
                 THEN [NewResp EXCEPT !.at = "RedirectFixed", !.status = code,
                          !.location = WithQuery(fix.fixedPath, req.query)]
                 ELSE Fallback(r, req, order)
       ELSE Fallback(r, req, order)

\* Dispatch that exempts the path "/" from redirects but not CONNECT
Dispatch_RedirectConnect(r, req, order) ==
    LET root == trees[r][req.method]
        v == getValue(root, req.path)
        code == RedirectCode(req.method)
        fix == findCaseInsensitivePath(root, cleanPath(req.path),
                                       cfg[r].RedirectTrailingSlash)
    IN IF ~root.present THEN Fallback(r, req, order)
       ELSE IF v.handle # Nil
            THEN Call([NewResp EXCEPT !.at = "Handled"], v.handle, req)
       ELSE IF req.path # Slash
            THEN IF v.tsr /\ cfg[r].RedirectTrailingSlash
                 THEN [NewResp EXCEPT !.at = "RedirectTSR", !.status = code,
                          !.location = WithQuery(TsrTarget(req.path), req.query)]
                 ELSE IF cfg[r].RedirectFixedPath /\ fix.found
                 THEN [NewResp EXCEPT !.at = "RedirectFixed", !.status = code,
                          !.location = WithQuery(fix.fixedPath, req.query)]
                 ELSE Fallback(r, req, order)
       ELSE Fallback(r, req, order)

\* lines 321-408: the dispatch, before the deferred recv runs
Dispatch(r, req, order) ==
    LET root == trees[r][req.method]
        v == getValue(root, req.path)
        code == RedirectCode(req.method)
        fix == findCaseInsensitivePath(root, cleanPath(req.path),
                                       cfg[r].RedirectTrailingSlash)
    IN IF ~root.present THEN Fallback(r, req, order)
       ELSE IF v.handle # Nil
            THEN Call([NewResp EXCEPT !.at = "Handled"], v.handle, req)
       ELSE IF req.method # "CONNECT" /\ req.path # Slash
            THEN IF v.tsr /\ cfg[r].RedirectTrailingSlash
                 THEN [NewResp EXCEPT !.at = "RedirectTSR", !.status = code,
                          !.location = WithQuery(TsrTarget(req.path), req.query)]
                 ELSE IF cfg[r].RedirectFixedPath /\ fix.found
                 THEN [NewResp EXCEPT !.at = "RedirectFixed", !.status = code,
                          !.location = WithQuery(fix.fixedPath, req.query)]
                 ELSE Fallback(r, req, order)
       ELSE Fallback(r, req, order)

\* recv that recovers the panic and drops it
recv_Drop(resp) == [resp EXCEPT !.panic = NoPanic]

\* Router.recv, deferred when a PanicHandler is set: a recovered panic is
\* handed to the PanicHandler and the call returns
recv(resp) ==
    IF resp.panic # NoPanic
    THEN [resp EXCEPT !.called = Append(@, [fn |-> "PanicHandler", arg |-> resp.panic,
                                            allow |-> resp.allow]),
                      !.panic = NoPanic]
    ELSE resp

\* Router.Handler; resp.panic is the panic that leaves it, if any
Handler(r, req, order) ==
    IF cfg[r].PanicHandler THEN recv(Dispatch(r, req, order))
    ELSE Dispatch(r, req, order)

\* Lookup that follows the trailing-slash recommendation to a handler
Lookup_FollowTsr(r, method, path) ==
    LET root == trees[r][method]
        v == getValue(root, path)
    IN IF ~root.present THEN [handle |-> Nil, tsr |-> FALSE]
       ELSE IF v.tsr
            THEN getValue(root, CHOOSE q \in ToggleSlash(path) : Matching(root, q) # {})
       ELSE v

\* Router.Lookup
Lookup(r, method, path) ==
    IF trees[r][method].present THEN getValue(trees[r][method], path)
    ELSE [handle |-> Nil, tsr |-> FALSE]

\* Router.List
List(r) == registeredPaths[r]

----------------------------------------------------------------------------
(* Operations *)

NoReq == [method |-> "GET", path |-> <<>>, query |-> <<>>]

\* no request served yet
NoCtx == [served |-> FALSE, via |-> "none", router |-> Nil, req |-> NoReq,
          resp |-> NewResp, dispatched |-> 0, obs |-> <<>>, log |-> <<>>,
          labelErr |-> FALSE]

NewProm == [router |-> Nil, listenAddress |-> "", MetricsPath |-> PMetrics,
            Handler |-> FALSE]

\* the state after r := router.New() and p := NewPrometheus("")
InitNew ==
    /\ alive = {"r"}
    /\ parent = [x \in Routers |-> Nil]
    /\ beginPath = [x \in Routers |-> Slash]
    /\ trees = [x \in Routers |-> NoTrees]
    /\ registeredPaths = [x \in Routers |-> NoPaths]
    /\ crashed = FALSE
    /\ ctx = NoCtx
    /\ prom = NewProm
    /\ pc = "setup"
    /\ serving = {}
    /\ nreg = 0

\* the name of the handler function passed to a registration
HandleName(r, method, path) == method \o " " \o r \o ":" \o Str(path)

\* r.Handle(method, path, handle) called by the application
Register(r, method, path) ==
    /\ ~crashed
    /\ r \in alive
    /\ nreg < MaxRoutes
    /\ LET rs == HandleOn(Routing, r, method, path, HandleName(r, method, path))
       IN /\ trees' = rs.trees
          /\ registeredPaths' = rs.registeredPaths
          /\ crashed' = rs.panicked
    /\ nreg' = nreg + 1
    /\ UNCHANGED <<alive, parent, beginPath, cfg, ctx, prom, pc, serving>>

\* a request dispatched by a serving loop straight to r.Handler
ServeRouter(r, method, path, query, raise, order) ==
    /\ ~crashed
    /\ r \in alive
    /\ ~ctx.served
    /\ ctx' = [served |-> TRUE, via |-> "router", router |-> r,
               req |-> [method |-> method, path |-> path, query |-> query],
               resp |-> Handler(r, [method |-> method, path |-> path,
                                    query |-> query, raise |-> raise], order),
               dispatched |-> 1, obs |-> <<>>, log |-> <<"Handler">>,
               labelErr |-> FALSE]
    /\ UNCHANGED <<alive, parent, beginPath, trees, registeredPaths, cfg,
                   crashed, prom, pc, serving, nreg>>

----------------------------------------------------------------------------
(* Dispatch scenario: routes registered on a root router whose option      *)
(* fields the application has assigned, then requests served by r.Handler. *)

\* the option fields as an application may have set them: any flags with
\* the handlers nil, or the flags of New() with any handlers
DispatchCfgs ==
    {c \in Cfgs : (~c.NotFound /\ ~c.MethodNotAllowed /\ ~c.PanicHandler)
                  \/ (c.RedirectTrailingSlash /\ c.RedirectFixedPath
                      /\ c.HandleMethodNotAllowed /\ c.HandleOPTIONS)}

DispatchPaths == {PX, PXs, PXup, PXups, Slash, PStar, PDblX}
Queries == {<<>>, <<"q">>}
Raises == {NoPanic} \cup PanicValues

InitDispatch ==
    /\ InitNew
    /\ cfg \in [Routers -> DispatchCfgs]
    /\ \A x \in Routers \ {"r"} : cfg[x] = NewCfg

\* the application's list of routes
DispatchRoutes ==
    << <<"GET", PX>>, <<"GET", PXups>>, <<"HEAD", PX>>, <<"HEAD", PXups>>,
       <<"POST", PX>>, <<"OPTIONS", PX>>, <<"CONNECT", PX>>, <<"CONNECT", PXups>> >>

\* the application registers routes of its list, in the order of the list
BuildDispatch ==
    /\ ~ctx.served
    /\ \E i \in 1..Len(DispatchRoutes) :
          /\ \A j \in i..Len(DispatchRoutes) :
                DispatchRoutes[j][2] \notin RoutePaths("r", DispatchRoutes[j][1])
          /\ Register("r", DispatchRoutes[i][1], DispatchRoutes[i][2])

ServeDispatch ==
    \E m \in Methods, p \in DispatchPaths, q \in Queries, e \in Raises,
       order \in Perms(TreeMethods("r")) :
        ServeRouter("r", m, p, q, e, order)

NextDispatch == BuildDispatch \/ ServeDispatch

SpecDispatch == InitDispatch /\ [][NextDispatch]_vars

----------------------------------------------------------------------------
(* Prometheus middleware (src/prometheus.go) and the func main that sets   *)
(* it up (src/unnamed/part_001, src/example/main.go).                      *)

\* strconv.Itoa on the status codes the router produces
Itoa(n) == CASE n = 200 -> "200" [] n = 301 -> "301" [] n = 307 -> "307"
             [] n = 404 -> "404" [] n = 405 -> "405" [] OTHER -> "?"

RECURSIVE LastFound(_, _, _, _)
\* the loop of lines 121-125: uri becomes every listed path that Lookup
\* finds a handler for, in turn
LastFound(r, method, paths, uri) ==
    IF paths = <<>> THEN uri
    ELSE LastFound(r, method, Tail(paths),
                   IF Lookup(r, method, Head(paths)).handle # Nil
                   THEN Head(paths) ELSE uri)

\* lines 117-127: the label of the observation
Endpoint(r, method, path) ==
    method \o "_" \o Str(LastFound(r, method, List(r)[method], path))

\* utf8.ValidString on a path: no byte that cannot occur in UTF-8
ValidUTF8(path) == \A i \in 1..Len(path) : path[i] # BadByte

\* Wrap that observes requests for the metrics path like any other
Wrap_ObserveAll(req, order) ==
    LET resp == Handler(prom.router, req, order)
        labelErr == ~ValidUTF8(LastFound(prom.router, req.method,
                                         List(prom.router)[req.method], req.path))
    IN IF resp.panic # NoPanic
       THEN [resp |-> resp, dispatched |-> 1, obs |-> <<>>, log |-> <<"Handler">>,
             labelErr |-> FALSE]
       ELSE IF labelErr
       THEN [resp |-> resp, dispatched |-> 1, obs |-> <<>>,
             log |-> <<"Handler", "List", "GetMetricWithLabelValues">>,
             labelErr |-> TRUE]
       ELSE [resp |-> resp, dispatched |-> 1,
             obs |-> <<[code |-> Itoa(resp.status),
                        path |-> Endpoint(prom.router, req.method, req.path)]>>,
             log |-> <<"Handler", "List", "GetMetricWithLabelValues", "Observe">>,
             labelErr |-> FALSE]

\* the function HandlerFunc returns, applied to a request.  labelErr: the
\* GetMetricWithLabelValues call of line 129 returns an error, which it
\* does for a label value that is not valid UTF-8.  log lists the calls
\* made, in order; a panic that leaves Handler ends the function there.
Wrap(req, order) ==
    LET resp == Handler(prom.router, req, order)
        labelErr == ~ValidUTF8(LastFound(prom.router, req.method,
                                         List(prom.router)[req.method], req.path))
    IN IF req.path = prom.MetricsPath \/ resp.panic # NoPanic
       THEN [resp |-> resp, dispatched |-> 1, obs |-> <<>>, log |-> <<"Handler">>,
             labelErr |-> FALSE]
       ELSE IF labelErr
       THEN [resp |-> resp, dispatched |-> 1, obs |-> <<>>,
             log |-> <<"Handler", "List", "GetMetricWithLabelValues">>,
             labelErr |-> TRUE]
       ELSE [resp |-> resp, dispatched |-> 1,
             obs |-> <<[code |-> Itoa(resp.status),
                        path |-> Endpoint(prom.router, req.method, req.path)]>>,
             log |-> <<"Handler", "List", "GetMetricWithLabelValues", "Observe">>,
             labelErr |-> FALSE]

\* the registration every setup call makes: r.GET(p.MetricsPath, prometheusHandler())
WithMetricsRoute(r) == HandleOn(Routing, r, "GET", prom.MetricsPath, "prometheusHandler")

\* p.SetListenAddress(address)
SetListenAddress(address) ==
    /\ pc = "setup" /\ ~crashed
    /\ prom' = [prom EXCEPT !.listenAddress = address,
                            !.router = IF address # "" THEN "m" ELSE @]
    /\ alive' = IF address # "" THEN alive \cup {"m"} ELSE alive
    /\ pc' = "addressed"
    /\ UNCHANGED <<parent, beginPath, trees, registeredPaths, cfg, crashed, ctx,
                   serving, nreg>>

\* m := router.New(); p.SetListenAddressWithRouter(listenAddress, m)
SetListenAddressWithRouter(listenAddress) ==
    /\ pc = "setup" /\ ~crashed
    /\ prom' = [prom EXCEPT !.listenAddress = listenAddress,
                            !.router = IF Len(listenAddress) > 0 THEN "m" ELSE @]
    /\ alive' = alive \cup {"m"}
    /\ pc' = "addressed"
    /\ UNCHANGED <<parent, beginPath, trees, registeredPaths, cfg, crashed, ctx,
                   serving, nreg>>

\* p.Custom(r), with SetMetricsPath and runServer
Custom(r) ==
    /\ pc \in {"setup", "addressed"} /\ ~crashed
    /\ LET rs == WithMetricsRoute(r)
       IN /\ trees' = rs.trees
          /\ registeredPaths' = rs.registeredPaths
          /\ crashed' = rs.panicked
    /\ prom' = [prom EXCEPT !.router = r, !.Handler = TRUE]
    /\ serving' = IF prom.listenAddress # "" THEN serving \cup {r} ELSE serving
    /\ pc' = "attached"
    /\ UNCHANGED <<alive, parent, beginPath, cfg, ctx, nreg>>

\* p.Use(r)
Use(r) ==
    /\ pc \in {"setup", "addressed"} /\ ~crashed
    /\ LET rs == WithMetricsRoute(r)
       IN /\ trees' = rs.trees
          /\ registeredPaths' = rs.registeredPaths
          /\ crashed' = rs.panicked
    /\ prom' = [prom EXCEPT !.router = r, !.Handler = TRUE]
    /\ pc' = "attached"
    /\ UNCHANGED <<alive, parent, beginPath, cfg, ctx, serving, nreg>>

\* fasthttp.ListenAndServe(":8080", p.Handler) at the end of main
ListenAndServe ==
    /\ pc = "attached" /\ ~crashed
    /\ pc' = "listening"
    /\ serving' = serving \cup {prom.router}
    /\ UNCHANGED <<alive, parent, beginPath, trees, registeredPaths, cfg, crashed,
                   ctx, prom, nreg>>

\* ServeWrapped that also records the requested path as a registered path
ServeWrapped_Records(method, path, query, raise, order) ==
    /\ pc = "listening" /\ ~crashed /\ prom.Handler
    /\ ~ctx.served
    /\ LET w == Wrap([method |-> method, path |-> path, query |-> query,
                      raise |-> raise], order)
       IN ctx' = [served |-> TRUE, via |-> "wrapper", router |-> prom.router,
                  req |-> [method |-> method, path |-> path, query |-> query],
                  resp |-> w.resp, dispatched |-> w.dispatched, obs |-> w.obs,
                  log |-> w.log, labelErr |-> w.labelErr]
    /\ registeredPaths' = [registeredPaths EXCEPT ![prom.router][method] = Append(@, path)]
    /\ UNCHANGED <<alive, parent, beginPath, trees, cfg,
                   crashed, prom, pc, serving, nreg>>

\* a request served by p.Handler
ServeWrapped(method, path, query, raise, order) ==
    /\ pc = "listening" /\ ~crashed /\ prom.Handler
    /\ ~ctx.served
    /\ LET w == Wrap([method |-> method, path |-> path, query |-> query,
                      raise |-> raise], order)
       IN ctx' = [served |-> TRUE, via |-> "wrapper", router |-> prom.router,
                  req |-> [method |-> method, path |-> path, query |-> query],
                  resp |-> w.resp, dispatched |-> w.dispatched, obs |-> w.obs,
                  log |-> w.log, labelErr |-> w.labelErr]
    /\ UNCHANGED <<alive, parent, beginPath, trees, registeredPaths, cfg,
                   crashed, prom, pc, serving, nreg>>

PromMethods == {"GET", "POST"}
PromPatterns == {PHealth, PX}
PromPaths == {PMetrics, PHealth, PX, PXs, PBad}
Addresses == {"", ":9"}

InitProm == InitNew /\ cfg = [x \in Routers |-> NewCfg]

\* main registers its routes after Custom or Use and before ListenAndServe
BuildProm ==
    /\ pc = "attached"
    /\ \E m \in PromMethods, p \in PromPatterns : Register("r", m, p)

SetAddressProm ==
    \E a \in Addresses : SetListenAddress(a) \/ SetListenAddressWithRouter(a)

AttachProm == Custom("r") \/ Use("r")

ServeProm ==
    /\ prom.Handler
    /\ \E m \in Methods, p \in PromPaths, q \in Queries, e \in Raises,
          order \in Perms(TreeMethods(prom.router)) :
           ServeWrapped(m, p, q, e, order)

\* a request served by the goroutine runServer started
ServeMetricsProm ==
    \E x \in serving, m \in Methods, p \in PromPaths, q \in Queries, e \in Raises :
        \E order \in Perms(TreeMethods(x)) : ServeRouter(x, m, p, q, e, order)

NextProm ==
    \/ SetAddressProm
    \/ AttachProm
    \/ BuildProm
    \/ ListenAndServe
    \/ ServeProm
    \/ ServeMetricsProm

SpecProm == InitProm /\ [][NextProm]_vars

----------------------------------------------------------------------------
(* Group scenario: groups made from the root and from each other, and      *)
(* routes registered on any of them.                                       *)

\* g := r.Group(path)
Group(r, g, path) ==
    /\ ~crashed
    /\ r \in alive /\ g \notin alive
    /\ alive' = alive \cup {g}
    /\ parent' = [parent EXCEPT ![g] = r]
    /\ beginPath' = [beginPath EXCEPT ![g] = path]
    /\ trees' = [trees EXCEPT ![g] = NoTrees]
    /\ registeredPaths' = [registeredPaths EXCEPT ![g] = NoPaths]
    /\ cfg' = [cfg EXCEPT ![g] = NewCfg]
    /\ UNCHANGED <<crashed, ctx, prom, pc, serving, nreg>>

GroupIds == {"g1", "g2"}
GroupPrefixes == {PA, Slash}
GroupMethods == {"GET", "POST"}
GroupPatterns == {PX, POpt, PNoLead}
GroupPaths == {PX, PA \o PX, PA \o PA \o PX, PA \o PXs}

InitGroup == InitNew /\ cfg = [x \in Routers |-> NewCfg]

MakeGroup ==
    \E r \in {"r", "g1"}, g \in GroupIds, path \in GroupPrefixes :
        ~ctx.served /\ Group(r, g, path)

BuildGroup ==
    /\ ~ctx.served
    /\ \E x \in {"r"} \cup GroupIds, m \in GroupMethods, p \in GroupPatterns :
          Register(x, m, p)

ServeGroup ==
    \E m \in GroupMethods, p \in GroupPaths, order \in Perms(TreeMethods("r")) :
        ServeRouter("r", m, p, <<>>, NoPanic, order)

NextGroup == MakeGroup \/ BuildGroup \/ ServeGroup

SpecGroup == InitGroup /\ [][NextGroup]_vars

----------------------------------------------------------------------------
(* What the routes of a router say about a request, stated on the route    *)
(* sets alone.                                                             *)

\* some route of method m matches path exactly
Exact(r, m, path) == \E pat \in RoutePaths(r, m) : Match(pat, path)

\* some route of method m matches path without regard to case
ExactFold(r, m, path) == \E pat \in RoutePaths(r, m) : MatchFold(pat, path)

CR == ctx.router
ReqM == ctx.req.method
ReqP == ctx.req.path
Resp == ctx.resp

\* the query suffix of a redirect target
QuerySuffix == IF ctx.req.query = <<>> THEN <<>> ELSE <<"?">> \o ctx.req.query

ExactHit == Exact(CR, ReqM, ReqP)

\* the other variant of the requested path is a route of the request method
SlashVariantRegistered == \E q \in ToggleSlash(ReqP) : Exact(CR, ReqM, q)

Redirectable == trees[CR][ReqM].present /\ ReqM # "CONNECT" /\ ReqP # Slash

TsrHit ==
    /\ ~ExactHit /\ Redirectable
    /\ cfg[CR].RedirectTrailingSlash /\ SlashVariantRegistered

FixedHit ==
    /\ ~ExactHit /\ ~TsrHit /\ Redirectable
    /\ cfg[CR].RedirectFixedPath
    /\ \/ ExactFold(CR, ReqM, cleanPath(ReqP))
       \/ /\ cfg[CR].RedirectTrailingSlash
          /\ \E q \in ToggleSlash(cleanPath(ReqP)) : ExactFold(CR, ReqM, q)

\* the methods an Allow header for (path, reqMethod) has to name
AllowSet(r, path, reqMethod) ==
    IF path = PStar \/ path = PSlStar
    THEN TreeMethods(r) \ {"OPTIONS"}
    ELSE {m \in Methods \ {reqMethod, "OPTIONS"} : Exact(r, m, path)}

\* the Allow header values naming exactly the methods of S and OPTIONS
AllowStrings(S) == {AllowJoin(o) \o ", OPTIONS" : o \in Perms(S)}

OptionsHit ==
    /\ ~ExactHit /\ ~TsrHit /\ ~FixedHit
    /\ ReqM = "OPTIONS" /\ cfg[CR].HandleOPTIONS
    /\ AllowSet(CR, ReqP, ReqM) # {}

NotAllowedHit ==
    /\ ~ExactHit /\ ~TsrHit /\ ~FixedHit
    /\ ReqM # "OPTIONS" /\ cfg[CR].HandleMethodNotAllowed
    /\ AllowSet(CR, ReqP, ReqM) # {}

\* the first applicable of the six outcomes
FirstApplicable ==
    IF ExactHit THEN "Handled"
    ELSE IF TsrHit THEN "RedirectTSR"
    ELSE IF FixedHit THEN "RedirectFixed"
    ELSE IF OptionsHit THEN "Options"
    ELSE IF NotAllowedHit THEN "MethodNotAllowed"
    ELSE "NotFound"

Outcomes == {"Handled", "RedirectTSR", "RedirectFixed", "Options",
             "MethodNotAllowed", "NotFound"}

CalledFns == {Resp.called[i].fn : i \in 1..Len(Resp.called)}

RouteHandles(r) == {rt.handle : rt \in UNION {trees[r][m].routes : m \in Methods}}

NoRoutes(r) == \A m \in Methods : ~trees[r][m].present

----------------------------------------------------------------------------
(* Claims about Router.Handler *)

\* C1: every request ends in exactly one of the six outcomes, the first
\* applicable one in the order Handled, trailing-slash redirect, fixed-path
\* redirect, OPTIONS reply, Method Not Allowed, Not Found; a route handler
\* runs only on an exact match, and with no routes the outcome is Not Found
\* (status 404 unless a NotFound handler is configured).
C1_FirstApplicableOutcome ==
    ctx.served =>
        /\ Resp.at \in Outcomes
        /\ Resp.at = FirstApplicable
        /\ (CalledFns \cap RouteHandles(CR) # {}) <=> ExactHit
        /\ Resp.at \in {"RedirectTSR", "RedirectFixed"} => ~ExactHit /\ Resp.called = <<>>
        /\ Resp.allow # "" => ~ExactHit /\ ~TsrHit /\ ~FixedHit
        /\ NoRoutes(CR) =>
              /\ Resp.at = "NotFound"
              /\ ~cfg[CR].NotFound => Resp.status = 404

\* C1 witness: a redirect issued although another method matches the path,
\* which would have made a 405 applicable
C1_Witness ==
    /\ ctx.served /\ Resp.at \in {"RedirectTSR", "RedirectFixed"}
    /\ cfg[CR].HandleMethodNotAllowed
    /\ AllowSet(CR, ReqP, ReqM) # {}

IsRedirect == Resp.at \in {"RedirectTSR", "RedirectFixed"}

\* C3 as stated: a redirect carries 301 for GET and HEAD, 307 otherwise.
C3_Original ==
    (ctx.served /\ IsRedirect) =>
        Resp.status = IF ReqM \in {"GET", "HEAD"} THEN 301 ELSE 307

\* C3 amended: a redirect carries 301 for GET only, and 307 for every
\* other method, HEAD included.
C3_RedirectStatus ==
    (ctx.served /\ IsRedirect) =>
        Resp.status = IF ReqM = "GET" THEN 301 ELSE 307

\* C3 witness: a fixed-path redirect of a HEAD request
C3_Witness ==
    ctx.served /\ Resp.at = "RedirectFixed" /\ ReqM = "HEAD" /\ Resp.status = 307

\* the situation of C4: no exact match, no redirect, and another method
\* than OPTIONS has a route matching the path
OtherMethodMatches ==
    /\ ctx.served /\ ~ExactHit /\ ~TsrHit /\ ~FixedHit
    /\ \E m \in Methods \ {ReqM, "OPTIONS"} : Exact(CR, m, ReqP)

\* the methods other than OPTIONS with a route matching the requested path
MatchingMethods == {m \in Methods \ {"OPTIONS"} : Exact(CR, m, ReqP)}

OnlyGetX(r) == \A m \in Methods : RoutePaths(r, m) = IF m = "GET" THEN {PX} ELSE {}

\* C4: in that situation a non-OPTIONS request gets, with
\* HandleMethodNotAllowed, the Allow header naming the matching methods and
\* OPTIONS, set before the MethodNotAllowed handler runs, or status 405
\* when none is configured; an OPTIONS request gets, with HandleOPTIONS,
\* the same Allow header, no body, no 405 and no handler.  With only GET /x
\* registered both POST /x and OPTIONS /x get Allow "GET, OPTIONS".
C4_MethodNotAllowed ==
    /\ (OtherMethodMatches /\ ReqM # "OPTIONS" /\ cfg[CR].HandleMethodNotAllowed) =>
          /\ Resp.allow \in AllowStrings(MatchingMethods)
          /\ IF cfg[CR].MethodNotAllowed
             THEN /\ Len(Resp.called) >= 1
                  /\ Resp.called[1].fn = "MethodNotAllowed"
                  /\ Resp.called[1].allow = Resp.allow
             ELSE Resp.status = 405 /\ Resp.called = <<>>
    /\ (OtherMethodMatches /\ ReqM = "OPTIONS" /\ cfg[CR].HandleOPTIONS) =>
          /\ Resp.allow \in AllowStrings(MatchingMethods)
          /\ Resp.body = "" /\ Resp.status # 405 /\ Resp.called = <<>>
    /\ (ctx.served /\ OnlyGetX(CR) /\ ReqP = PX) =>
          /\ (ReqM = "POST" /\ cfg[CR].HandleMethodNotAllowed) =>
                /\ Resp.allow = "GET, OPTIONS"
                /\ ~cfg[CR].MethodNotAllowed => Resp.status = 405
          /\ (ReqM = "OPTIONS" /\ cfg[CR].HandleOPTIONS) =>
                Resp.allow = "GET, OPTIONS" /\ Resp.body = ""

\* C4 witness: POST /x answered 405 with only GET /x registered
C4_Witness ==
    /\ ctx.served /\ OnlyGetX(CR) /\ ReqP = PX /\ ReqM = "POST"
    /\ Resp.status = 405 /\ Resp.allow = "GET, OPTIONS"

\* the paths Router.allowed is applied to
AllowedPaths == DispatchPaths \cup {PSlStar}

\* the value C5 gives Router.allowed, with the given paths as wildcard targets
AllowedAsClaimed(wild, path, m, order) ==
    LET S == IF path \in wild
             THEN TreeMethods("r") \ {"OPTIONS"}
             ELSE {k \in TreeMethods("r") \ {m, "OPTIONS"} : Exact("r", k, path)}
        listed == SelectSeq(order, LAMBDA k : k \in S)
    IN IF S = {} THEN "" ELSE AllowJoin(listed) \o ", OPTIONS"

\* C5 as stated: for every path but "*" Router.allowed lists exactly the
\* methods with a trie, other than the request method and OPTIONS, that
\* match the path, and for "*" every method with a trie except OPTIONS;
\* OPTIONS is appended once exactly when some method is listed.
C5_Original ==
    ~ctx.served =>
        \A path \in AllowedPaths, m \in Methods, order \in Perms(TreeMethods("r")) :
            allowed("r", path, m, order) = AllowedAsClaimed({PStar}, path, m, order)

\* C5 amended: the same with "/*" a wildcard target like "*".
C5_Allowed ==
    ~ctx.served =>
        \A path \in AllowedPaths, m \in Methods, order \in Perms(TreeMethods("r")) :
            allowed("r", path, m, order) = AllowedAsClaimed({PStar, PSlStar}, path, m, order)

\* C5 witness: a GET for "*" answered with an Allow header that names GET,
\* on a router with tries for GET and OPTIONS
C5_Witness ==
    /\ ctx.served /\ ReqP = PStar /\ ReqM = "GET"
    /\ TreeMethods(CR) = {"GET", "OPTIONS"}
    /\ Resp.allow = "GET, OPTIONS"

PanicHandlerCalls == {i \in 1..Len(Resp.called) : Resp.called[i].fn = "PanicHandler"}

\* C6: with a PanicHandler, a panic raised by the invoked handler does not
\* leave Router.Handler and the PanicHandler runs once, with the panic
\* value; without one the panic leaves Router.Handler and no PanicHandler
\* runs.
C6_PanicContainment ==
    ctx.served =>
        /\ (Resp.raised # NoPanic /\ cfg[CR].PanicHandler) =>
              /\ Resp.panic = NoPanic
              /\ Cardinality(PanicHandlerCalls) = 1
              /\ \A i \in PanicHandlerCalls : Resp.called[i].arg = Resp.raised
        /\ (Resp.raised # NoPanic /\ ~cfg[CR].PanicHandler) =>
              Resp.panic = Resp.raised /\ PanicHandlerCalls = {}
        /\ Resp.raised = NoPanic => Resp.panic = NoPanic /\ PanicHandlerCalls = {}

\* C6 witness: a route handler panicked and the PanicHandler took the value
C6_Witness ==
    /\ ctx.served /\ Resp.at = "Handled" /\ Resp.raised \in PanicValues
    /\ cfg[CR].PanicHandler /\ PanicHandlerCalls # {} /\ Resp.panic = NoPanic

----------------------------------------------------------------------------
(* Claims about the middleware *)

Wrapped == ctx.served /\ ctx.via = "wrapper"

\* the pattern of the route that served the request
ServedPattern == CHOOSE pat \in RoutePaths(CR, ReqM) : Match(pat, ReqP)

\* C7: the path label of an observation is the method, "_" and the pattern
\* of the route that served the request, the raw request path only when no
\* pattern of the method matches the request.
C7_Original ==
    (Wrapped /\ ctx.obs # <<>>) =>
        ctx.obs[1].path =
            ReqM \o "_" \o Str(IF ExactHit THEN ServedPattern ELSE ReqP)

\* C8: no registration changes the tries or the registered paths of a
\* router once a serving loop dispatches through its Handler.
C8_Original ==
    [][\A x \in serving : trees'[x] = trees[x] /\ registeredPaths'[x] = registeredPaths[x]]_vars

\* C9: serving a request, through Router.Handler or through the wrapper
\* with its List and Lookup calls, leaves every trie and every list of
\* registered paths as it was.
C9_ServeFrame ==
    [][ctx' # ctx => (trees' = trees /\ registeredPaths' = registeredPaths)]_vars

\* C9 witness: a request served through the wrapper, observed, on a router
\* with routes of the application
C9_Witness ==
    /\ Wrapped /\ ctx.obs # <<>> /\ nreg = MaxRoutes
    /\ RoutePaths(CR, ReqM) # {}

----------------------------------------------------------------------------
(* Claims about groups *)

RECURSIVE PrefixOf(_)
\* p1 + ... + pn for the chain of groups from the root down to x, a group
\* whose prefix is "/" adding nothing
PrefixOf(x) ==
    IF parent[x] = Nil THEN <<>>
    ELSE PrefixOf(parent[x]) \o (IF beginPath[x] = Slash THEN <<>> ELSE beginPath[x])

RECURSIVE RootOf(_)
RootOf(x) == IF parent[x] = Nil THEN x ELSE RootOf(parent[x])

IsGroup(x) == x \in alive /\ parent[x] # Nil

GroupsOwnNoTrie == \A x \in Routers : IsGroup(x) => trees[x] = NoTrees

\* the concrete patterns of a full pattern: its expansions when it has
\* optional segments, else the pattern itself
Concrete(full) ==
    IF getOptionalPaths(full) = <<>> THEN {full} ELSE SeqToSet(getOptionalPaths(full))

\* C10 as stated: a successful registration of (method, path) on a group
\* with chain prefixes p1..pn adds exactly the pattern p1+...+pn+path to
\* the root's trie for the method, and no group owns a trie.
C10_Original ==
    [][\A x \in alive, m \in GroupMethods, p \in GroupPatterns :
          (IsGroup(x) /\ Register(x, m, p) /\ ~crashed') =>
              /\ RoutePaths(RootOf(x), m)' =
                    RoutePaths(RootOf(x), m) \cup {PrefixOf(x) \o p}
              /\ GroupsOwnNoTrie']_vars

\* C10 amended: it adds exactly the concrete patterns of p1+...+pn+path,
\* which is that pattern itself when it has no optional segment; no other
\* trie changes and no group owns a trie.
C10_GroupPrefix ==
    [][\A x \in alive, m \in GroupMethods, p \in GroupPatterns :
          (IsGroup(x) /\ Register(x, m, p) /\ ~crashed') =>
              /\ RoutePaths(RootOf(x), m)' =
                    RoutePaths(RootOf(x), m) \cup Concrete(PrefixOf(x) \o p)
              /\ \A y \in Routers, k \in Methods :
                    (y # RootOf(x) \/ k # m) => trees'[y][k] = trees[y][k]
              /\ GroupsOwnNoTrie']_vars

\* C10 witness: a route registered on a group nested in a group, both with
\* a prefix, is in the root's trie under both prefixes and in no group's
C10_Witness ==
    /\ IsGroup("g2") /\ parent["g2"] = "g1" /\ beginPath["g1"] = PA /\ beginPath["g2"] = PA
    /\ registeredPaths["g2"]["GET"] = <<PA \o PX>>
    /\ RoutePaths("r", "GET") = {PA \o PA \o PX}
    /\ GroupsOwnNoTrie

\* the patterns a list of registered paths stands for in the trie
ConcreteOf(paths) == UNION {Concrete(paths[i]) : i \in 1..Len(paths)}

\* C11 as stated: after successful registrations the entries of the root's
\* registeredPaths[method] are the concrete patterns, one entry for each
\* expansion of a pattern with optional segments, so the set of entries is
\* the set of patterns in the method's trie.
C11_Original ==
    ~crashed =>
        \A m \in Methods :
            /\ SeqToSet(registeredPaths["r"][m]) = RoutePaths("r", m)
            /\ \A i \in 1..Len(registeredPaths["r"][m]) :
                  getOptionalPaths(registeredPaths["r"][m][i]) = <<>>

\* C11 amended: a successful registration of (method, path) on a router
\* with chain prefix p1..pn appends the one entry p1+...+pn+path, optional
\* marks kept, to the root's registeredPaths[method] and leaves the root's
\* other lists alone; the patterns in the method's trie are the concrete
\* patterns of the entries.
C11_RegisteredPaths ==
    [][\A x \in alive, m \in GroupMethods, p \in GroupPatterns :
          (Register(x, m, p) /\ ~crashed') =>
              /\ registeredPaths'[RootOf(x)][m] =
                    Append(registeredPaths[RootOf(x)][m], PrefixOf(x) \o p)
              /\ \A k \in Methods \ {m} :
                    registeredPaths'[RootOf(x)][k] = registeredPaths[RootOf(x)][k]
              /\ RoutePaths(RootOf(x), m)' = ConcreteOf(registeredPaths'[RootOf(x)][m])]_vars

\* C11 witness: the root's GET list after /x registered on a group with
\* prefix /a and then /x/:i? on the root
C11_Witness ==
    /\ ~crashed
    /\ registeredPaths["r"]["GET"] = <<PA \o PX, POpt>>
    /\ RoutePaths("r", "GET") = {PA \o PX, PX, PX \o PParam}

----------------------------------------------------------------------------
(* Claims about Router.Lookup *)

\* what Lookup returns for the request that was served
Looked == Lookup(CR, ReqM, ReqP)

\* C12: Lookup returns a handler exactly when Handler takes the Handled
\* outcome, and then the handler Handler invoked; otherwise it returns nil
\* with the trie's trailing-slash flag, (nil, false) when the method has no
\* trie; it returns a handler and a flag and nothing else, whatever outcome
\* Handler takes for the same request.
C12_LookupSameMatching ==
    (ctx.served /\ ctx.via = "router") =>
        /\ DOMAIN Looked = {"handle", "tsr"}
        /\ Looked.handle # Nil <=> Resp.at = "Handled"
        /\ Resp.at = "Handled" =>
              /\ Resp.called[1].fn = Looked.handle
              /\ \E rt \in trees[CR][ReqM].routes :
                    rt.handle = Looked.handle /\ Match(rt.path, ReqP)
        /\ Looked.handle = Nil => (Looked.tsr <=> SlashVariantRegistered)
        /\ ~trees[CR][ReqM].present => Looked = [handle |-> Nil, tsr |-> FALSE]

\* C12 witness: a request Handler redirects to the other slash variant,
\* for which Lookup returns nil and the flag
C12_Witness ==
    /\ ctx.served /\ Resp.at = "RedirectTSR" /\ Resp.status = 301
    /\ Looked = [handle |-> Nil, tsr |-> TRUE]

----------------------------------------------------------------------------
(* Claims about the metrics server *)

\* C13: Custom(r) after a non-empty listen address was set registers the
\* metrics route on the separate router m and starts the server on m, not
\* on the API router r; with no listen address it registers the route on
\* r and starts no server.
C13_Original ==
    [][Custom("r") =>
          IF prom.listenAddress # ""
          THEN /\ PMetrics \in RoutePaths("m", "GET")'
               /\ PMetrics \notin RoutePaths("r", "GET")'
               /\ serving' = {"m"}
          ELSE /\ PMetrics \in RoutePaths("r", "GET")'
               /\ serving' = {}]_vars

----------------------------------------------------------------------------
(* Claims about the fixed-path redirect *)

\* the path the case-insensitive recovery searches for: the cleaned
\* request path if some route matches it without regard to case, else,
\* with RedirectTrailingSlash, its other slash variant if some route
\* matches that
RecoveredAs ==
    LET clean == cleanPath(ReqP)
    IN IF ExactFold(CR, ReqM, clean) THEN {clean}
       ELSE IF cfg[CR].RedirectTrailingSlash
            THEN {q \in ToggleSlash(clean) : ExactFold(CR, ReqM, q)}
       ELSE {}

\* the registered spellings of a recovered path
Corrected(q) == {Recase(pat, q) : pat \in {x \in RoutePaths(CR, ReqM) : MatchFold(x, q)}}

\* the fixed-path redirect C14 describes, for the request that was served
FixedRedirect ==
    /\ Resp.at = "RedirectFixed"
    /\ Resp.called = <<>>
    /\ \E q \in RecoveredAs : \E fixed \in Corrected(q) :
          Resp.location = fixed \o QuerySuffix

\* GET /x/ served with only GET /X/ registered is redirected to /X/
FixedExample ==
    (RoutePaths(CR, "GET") = {PXups} /\ ReqM = "GET" /\ ReqP = PXs
        /\ cfg[CR].RedirectFixedPath) =>
        Resp.location = PXups \o QuerySuffix

\* C14 as stated: with RedirectFixedPath, a request without exact match
\* and without trailing-slash redirect whose cleaned path the recovery
\* finds is redirected to the corrected path, query kept; without
\* RedirectFixedPath there is no fixed-path redirect.
C14_Original ==
    ctx.served =>
        /\ (cfg[CR].RedirectFixedPath /\ ~ExactHit /\ Resp.at # "RedirectTSR"
                /\ RecoveredAs # {}) => FixedRedirect
        /\ ~cfg[CR].RedirectFixedPath => Resp.at # "RedirectFixed"
        /\ FixedExample

\* C14 amended: the same for every request method other than CONNECT.
C14_FixedPathRedirect ==
    ctx.served =>
        /\ (cfg[CR].RedirectFixedPath /\ ~ExactHit /\ Resp.at # "RedirectTSR"
                /\ RecoveredAs # {} /\ ReqM # "CONNECT") => FixedRedirect
        /\ ~cfg[CR].RedirectFixedPath => Resp.at # "RedirectFixed"
        /\ FixedExample

\* C14 witness: a POST for //x with a query string, redirected to the
\* cleaned path /x
C14_Witness ==
    /\ ctx.served /\ ReqM = "POST" /\ ReqP = PDblX /\ ctx.req.query # <<>>
    /\ Resp.at = "RedirectFixed"
    /\ Resp.location = PX \o <<"?">> \o ctx.req.query

\* the request is one the redirects are skipped for
Exempt == ReqM = "CONNECT" \/ ReqP = Slash

\* the outcome of the OPTIONS / Method Not Allowed / Not Found decision
FallbackOutcome ==
    IF ReqM = "OPTIONS"
    THEN IF cfg[CR].HandleOPTIONS /\ AllowSet(CR, ReqP, ReqM) # {}
         THEN "Options" ELSE "NotFound"
    ELSE IF cfg[CR].HandleMethodNotAllowed /\ AllowSet(CR, ReqP, ReqM) # {}
         THEN "MethodNotAllowed" ELSE "NotFound"

----------------------------------------------------------------------------
(* Claims about the observations of the wrapper *)

\* the positions of a call in the log of the served request
Calls(fn) == {i \in 1..Len(ctx.log) : ctx.log[i] = fn}

\* one dispatch to the router, before anything else the wrapper does
DispatchedOnce ==
    /\ ctx.dispatched = 1
    /\ Calls("Handler") = {1}

\* one observation, made after the dispatch, with the status the dispatch
\* left on the response
ObservedOnce ==
    /\ Len(ctx.obs) = 1
    /\ ctx.obs[1].code = Itoa(Resp.status)
    /\ Calls("Observe") = {Len(ctx.log)} /\ Len(ctx.log) > 1

NotObserved == ctx.obs = <<>> /\ Calls("Observe") = {}

\* C16 as stated: the wrapper dispatches every request once; a request for
\* another path than MetricsPath gives one observation, after the dispatch
\* and with its status code, a request for MetricsPath gives none.
C16_Original ==
    Wrapped =>
        /\ DispatchedOnce
        /\ IF ReqP # prom.MetricsPath THEN ObservedOnce ELSE NotObserved

\* C16 amended: a request for another path than MetricsPath gives that one
\* observation when the dispatch returns and the metric for the labels is
\* obtained; it gives none when a panic leaves Router.Handler or when
\* GetMetricWithLabelValues returns an error (a label that is not UTF-8).
C16_WrapperObserves ==
    Wrapped =>
        /\ DispatchedOnce
        /\ IF ReqP # prom.MetricsPath /\ Resp.panic = NoPanic /\ ~ctx.labelErr
           THEN ObservedOnce ELSE NotObserved

\* C16 witness: a POST answered 405 and observed with code "405"
C16_Witness ==
    /\ Wrapped /\ ReqM = "POST" /\ ReqP = PX /\ Resp.status = 405
    /\ ctx.obs # <<>> /\ ctx.obs[1].code = "405"

----------------------------------------------------------------------------
(* Claims about failed registrations *)

NoLeadingSlash(p) == p = <<>> \/ p[1] # "/"

\* C17: Handle called on the root or on a group with a path that does not
\* start with '/' fails, and leaves the tries and the registered paths of
\* every router, the one called and its ancestors included, as they were.
C17_RejectsNoLeadingSlash ==
    [][\A x \in alive, m \in GroupMethods, p \in GroupPatterns :
          (Register(x, m, p) /\ NoLeadingSlash(p)) =>
              /\ crashed'
              /\ trees' = trees
              /\ registeredPaths' = registeredPaths]_vars

\* C17 witness: the first registration, made while a group with a prefix
\* exists, has failed and no router has a registered path or a trie
C17_Witness ==
    /\ crashed /\ nreg = 1
    /\ IsGroup("g1") /\ beginPath["g1"] = PA
    /\ \A x \in Routers : registeredPaths[x] = NoPaths /\ trees[x] = NoTrees

====
